---- MODULE Spec2Model ----
(***************************************************************************)
(* A model of the to-do list program of src/main.py: the Task entity (its  *)
(* validation and its conversion to and from a record), the ToDoList store *)
(* (add, remove, mark completed, list with filters, save, load) and the    *)
(* menu loop of main() that drives them.                                   *)
(*                                                                         *)
(* A Python str is modelled as a sequence of one-character strings, so     *)
(* that lower(), capitalize(), strip(), split(","), substring search,      *)
(* strptime and strftime are computed character by character.              *)
(***************************************************************************)
EXTENDS Integers, Sequences, FiniteSets, TLC

VARIABLES
    tasks,   \* ToDoList.tasks: the store's own list of Task objects
    file,    \* tasks.json: [exists |-> BOOLEAN, data |-> list of records]
    pc,      \* the process: "start", "menu", "exited" or "crashed"
    op,      \* the last operation that ran
    arg,     \* its (stripped) input
    err,     \* the exception it raised, or NoError
    ret      \* the list the last list_tasks call returned

vars == <<tasks, file, pc, op, arg, err, ret>>

\* The store never holds more than MaxTasks tasks in the model.
MaxTasks == 2

------------------------------------------------------------------------------
(* Exceptions *)

NoError == "None"
InvalidDateError == "InvalidDateError"
InvalidPriorityError == "InvalidPriorityError"
TaskNotFoundError == "TaskNotFoundError"
ValueError == "ValueError"

\* (InvalidDateError, InvalidPriorityError, TaskNotFoundError) of main's handler
Caught == {InvalidDateError, InvalidPriorityError, TaskNotFoundError}

------------------------------------------------------------------------------
(* Python str and list primitives *)

UpperChars == <<"A","B","C","D","E","F","G","H","I","J","K","L","M",
                "N","O","P","Q","R","S","T","U","V","W","X","Y","Z">>
LowerChars == <<"a","b","c","d","e","f","g","h","i","j","k","l","m",
                "n","o","p","q","r","s","t","u","v","w","x","y","z">>
DigitChars == <<"0","1","2","3","4","5","6","7","8","9">>

Range(s) == {s[i] : i \in DOMAIN s}

\* the lower case of each upper case letter, and the reverse
LowerOf ==
    [c \in Range(UpperChars) |->
        LowerChars[CHOOSE i \in DOMAIN UpperChars : UpperChars[i] = c]]

UpperOf ==
    [c \in Range(LowerChars) |->
        UpperChars[CHOOSE i \in DOMAIN LowerChars : LowerChars[i] = c]]

lowerChar(c) == IF c \in DOMAIN LowerOf THEN LowerOf[c] ELSE c

upperChar(c) == IF c \in DOMAIN UpperOf THEN UpperOf[c] ELSE c

\* str.lower()
lower(s) == [i \in DOMAIN s |-> lowerChar(s[i])]

\* capitalize() that leaves the case of the rest as typed
capitalizeFirstOnly(s) ==
    [i \in DOMAIN s |-> IF i = 1 THEN upperChar(s[i]) ELSE s[i]]

\* str.capitalize(): first character upper case, the rest lower case
capitalize(s) ==
    [i \in DOMAIN s |-> IF i = 1 THEN upperChar(s[i]) ELSE lowerChar(s[i])]

RECURSIVE lstrip(_)
lstrip(s) == IF s # <<>> /\ Head(s) = " " THEN lstrip(Tail(s)) ELSE s

RECURSIVE rstrip(_)
rstrip(s) ==
    IF s # <<>> /\ s[Len(s)] = " " THEN rstrip(SubSeq(s, 1, Len(s) - 1)) ELSE s

\* str.strip()
strip(s) == rstrip(lstrip(s))

\* str.split(","): the pieces between the commas, scanning from position i
\* with the piece cur in progress
RECURSIVE splitFrom(_, _, _)
splitFrom(s, i, cur) ==
    IF i > Len(s) THEN <<cur>>
    ELSE IF s[i] = "," THEN <<cur>> \o splitFrom(s, i + 1, <<>>)
    ELSE splitFrom(s, i + 1, Append(cur, s[i]))

split(s) == splitFrom(s, 1, <<>>)

\* needle in haystack, for two str
contains(haystack, needle) ==
    \E k \in 0..(Len(haystack) - Len(needle)) :
        SubSeq(haystack, k + 1, k + Len(needle)) = needle

------------------------------------------------------------------------------
(* datetime.strptime(text, "%Y-%m-%d") and datetime.strftime("%Y-%m-%d") *)

isDigit(c) == c \in Range(DigitChars)
digit(c) == (CHOOSE i \in DOMAIN DigitChars : DigitChars[i] = c) - 1

isLeap(y) == y % 4 = 0 /\ (y % 100 # 0 \/ y % 400 = 0)

daysInMonth(y, m) ==
    IF m = 2 THEN (IF isLeap(y) THEN 29 ELSE 28)
    ELSE IF m \in {4, 6, 9, 11} THEN 30 ELSE 31

\* %m: 1[0-2]|0[1-9]|[1-9]
monthField(s) ==
    \/ Len(s) = 2 /\ s[1] = "1" /\ s[2] \in {"0", "1", "2"}
    \/ Len(s) = 2 /\ s[1] = "0" /\ isDigit(s[2]) /\ s[2] # "0"
    \/ Len(s) = 1 /\ isDigit(s[1]) /\ s[1] # "0"

\* %d: 3[01]|[12]\d|0[1-9]|[1-9]| [1-9]
dayField(s) ==
    \/ Len(s) = 2 /\ s[1] = "3" /\ s[2] \in {"0", "1"}
    \/ Len(s) = 2 /\ s[1] \in {"1", "2"} /\ isDigit(s[2])
    \/ Len(s) = 2 /\ s[1] = "0" /\ isDigit(s[2]) /\ s[2] # "0"
    \/ Len(s) = 1 /\ isDigit(s[1]) /\ s[1] # "0"
    \/ Len(s) = 2 /\ s[1] = " " /\ isDigit(s[2]) /\ s[2] # "0"

\* int() of a field of digits, a leading blank skipped
RECURSIVE toInt(_)
toInt(s) ==
    IF s = <<>> THEN 0
    ELSE IF s[Len(s)] = " " THEN 0
    ELSE 10 * toInt(SubSeq(s, 1, Len(s) - 1)) + digit(s[Len(s)])

BadDate == [ok |-> FALSE, year |-> 0, month |-> 0, day |-> 0]

\* The text must be %Y (four digits), "-", %m, "-", %d and nothing more, and
\* the three numbers must name a day of the calendar (years 1..9999);
\* otherwise strptime raises ValueError (ok = FALSE).
strptime(s) ==
    IF Len(s) < 8 \/ \E i \in 1..4 : ~isDigit(s[i]) THEN BadDate
    ELSE IF s[5] # "-" THEN BadDate
    ELSE LET mlen == IF s[7] = "-" THEN 1 ELSE 2
             mtxt == SubSeq(s, 6, 5 + mlen)
             dtxt == SubSeq(s, 7 + mlen, Len(s))
         IN  IF s[6 + mlen] # "-" \/ ~monthField(mtxt) \/ ~dayField(dtxt)
             THEN BadDate
             ELSE LET y == toInt(SubSeq(s, 1, 4))
                      m == toInt(mtxt)
                      d == toInt(dtxt)
                  IN  IF y < 1 \/ d > daysInMonth(y, m) THEN BadDate
                      ELSE [ok |-> TRUE, year |-> y, month |-> m, day |-> d]

\* the decimal digits of n, without padding
RECURSIVE decimal(_)
decimal(n) ==
    IF n < 10 THEN <<DigitChars[n + 1]>>
    ELSE Append(decimal(n \div 10), DigitChars[(n % 10) + 1])

RECURSIVE zfill(_, _)
zfill(s, width) == IF Len(s) >= width THEN s ELSE zfill(<<"0">> \o s, width)

\* strftime("%Y-%m-%d"). %m and %d are two digits. %Y is the C library's:
\* four digits, zero filled, on some platforms (pad), and the bare decimal
\* year on others (glibc), which differ for the years before 1000.
strftime(date, pad) ==
    (IF pad THEN zfill(decimal(date.year), 4) ELSE decimal(date.year))
    \o <<"-">> \o zfill(decimal(date.month), 2)
    \o <<"-">> \o zfill(decimal(date.day), 2)

\* datetime.date(): the calendar day
dateOf(d) == <<d.year, d.month, d.day>>

------------------------------------------------------------------------------
(* class Task *)

Priorities == {<<"H","i","g","h">>, <<"M","e","d","i","u","m">>, <<"L","o","w">>}

NoTask ==
    [description |-> <<>>, due_date |-> BadDate, priority |-> <<>>,
     completed |-> FALSE, tags |-> <<>>]

\* Task.__init__ with the priority checked before the date is parsed
TaskPriorityFirst(description, due_date, priority, tags, completed) ==
    LET date == strptime(due_date)
        prio == capitalize(priority)
    IN  IF prio \notin Priorities
        THEN [err |-> InvalidPriorityError, task |-> NoTask]
        ELSE IF ~date.ok THEN [err |-> InvalidDateError, task |-> NoTask]
        ELSE [err |-> NoError,
              task |-> [description |-> description, due_date |-> date,
                        priority |-> prio, completed |-> completed,
                        tags |-> tags]]

\* Task.__init__: the date is parsed first and a ValueError becomes
\* InvalidDateError; then the priority is capitalized and checked, and
\* InvalidPriorityError, which is no ValueError, leaves the try as it is.
Task(description, due_date, priority, tags, completed) ==
    LET date == strptime(due_date)
        prio == capitalize(priority)
    IN  IF ~date.ok THEN [err |-> InvalidDateError, task |-> NoTask]
        ELSE IF prio \notin Priorities
             THEN [err |-> InvalidPriorityError, task |-> NoTask]
        ELSE [err |-> NoError,
              task |-> [description |-> description, due_date |-> date,
                        priority |-> prio, completed |-> completed,
                        tags |-> tags]]

\* Task.to_dict
to_dict(task, pad) ==
    [description |-> task.description,
     due_date |-> strftime(task.due_date, pad),
     priority |-> task.priority,
     completed |-> task.completed,
     tags |-> task.tags]

\* Task.from_dict
from_dict(data) ==
    Task(data.description, data.due_date, data.priority, data.tags,
         data.completed)

------------------------------------------------------------------------------
(* class ToDoList *)

\* ToDoList.add_task
add_task(ts, task) == Append(ts, task)

\* del ts[i]
deleteAt(ts, i) == SubSeq(ts, 1, i - 1) \o SubSeq(ts, i + 1, Len(ts))

\* ToDoList.remove_task: the for loop from position i on. The task found is
\* removed by list.remove(task); Task defines no __eq__, so that is the
\* object at position i itself, and the loop returns at once.
RECURSIVE removeLoop(_, _, _)
removeLoop(ts, description, i) ==
    IF i > Len(ts) THEN [err |-> TaskNotFoundError, tasks |-> ts]
    ELSE IF ts[i].description = description
         THEN [err |-> NoError, tasks |-> deleteAt(ts, i)]
    ELSE removeLoop(ts, description, i + 1)

\* remove_task that compares the descriptions without their case
removeIgnoringCase(ts, description) ==
    LET hits == {i \in DOMAIN ts : lower(ts[i].description) = lower(description)}
    IN  IF hits = {} THEN [err |-> TaskNotFoundError, tasks |-> ts]
        ELSE [err |-> NoError,
              tasks |-> deleteAt(ts, CHOOSE i \in hits : \A j \in hits : i <= j)]

\* remove_task that removes the last task of that description
removeLastMatch(ts, description) ==
    LET hits == {i \in DOMAIN ts : ts[i].description = description}
    IN  IF hits = {} THEN [err |-> TaskNotFoundError, tasks |-> ts]
        ELSE [err |-> NoError,
              tasks |-> deleteAt(ts, CHOOSE i \in hits : \A j \in hits : i >= j)]

remove_task(ts, description) == removeLoop(ts, description, 1)

\* ToDoList.mark_completed: the for loop from position i on
RECURSIVE markLoop(_, _, _)
markLoop(ts, description, i) ==
    IF i > Len(ts) THEN [err |-> TaskNotFoundError, tasks |-> ts]
    ELSE IF ts[i].description = description
         THEN [err |-> NoError, tasks |-> [ts EXCEPT ![i].completed = TRUE]]
    ELSE markLoop(ts, description, i + 1)

\* mark_completed without the return: every task of that description
markAllMatches(ts, description) ==
    IF \A i \in DOMAIN ts : ts[i].description # description
    THEN [err |-> TaskNotFoundError, tasks |-> ts]
    ELSE [err |-> NoError,
          tasks |-> [i \in DOMAIN ts |->
                        IF ts[i].description = description
                        THEN [ts[i] EXCEPT !.completed = TRUE] ELSE ts[i]]]

\* mark_completed that flips the flag of the first task of that description
markToggle(ts, description) ==
    LET hits == {i \in DOMAIN ts : ts[i].description = description}
        k == CHOOSE i \in hits : \A j \in hits : i <= j
    IN  IF hits = {} THEN [err |-> TaskNotFoundError, tasks |-> ts]
        ELSE [err |-> NoError,
              tasks |-> [ts EXCEPT ![k].completed = ~ts[k].completed]]

mark_completed(ts, description) == markLoop(ts, description, 1)

\* filter_by=None, and the four kinds list_tasks knows
None == "None"
ByPriority == "priority"
ByDueDate == "due_date"
ByTag == "tag"
ByKeyword == "keyword"

NoRet == [alias |-> FALSE, items |-> <<>>]

\* the condition of each comprehension of list_tasks
byPriority(t, value) == lower(t.priority) = lower(value)

byDueDate(t, date_obj) == dateOf(t.due_date) = dateOf(date_obj)

byTag(t, value) == lower(value) \in {lower(tag) : tag \in Range(t.tags)}

\* the keyword comparison without lower()
keywordExactCase(t, value) == contains(t.description, value)

byKeyword(t, value) == contains(lower(t.description), lower(value))

\* ToDoList.list_tasks. The result is [err, ret]: ret.alias says that the
\* list returned is self.tasks itself (filtered = self.tasks, returned as it
\* is) and not a list built by a comprehension, whose items are ret.items.
\* A due_date value strptime rejects raises its ValueError.
list_tasks(ts, filter_by, value) ==
    IF filter_by = ByPriority THEN
        LET keep(t) == byPriority(t, value)
        IN  [err |-> NoError,
             ret |-> [alias |-> FALSE, items |-> SelectSeq(ts, keep)]]
    ELSE IF filter_by = ByDueDate THEN
        LET date_obj == strptime(value)
            keep(t) == byDueDate(t, date_obj)
        IN  IF ~date_obj.ok THEN [err |-> ValueError, ret |-> NoRet]
            ELSE [err |-> NoError,
                  ret |-> [alias |-> FALSE, items |-> SelectSeq(ts, keep)]]
    ELSE IF filter_by = ByTag THEN
        LET keep(t) == byTag(t, value)
        IN  [err |-> NoError,
             ret |-> [alias |-> FALSE, items |-> SelectSeq(ts, keep)]]
    ELSE IF filter_by = ByKeyword THEN
        LET keep(t) == byKeyword(t, value)
        IN  [err |-> NoError,
             ret |-> [alias |-> FALSE, items |-> SelectSeq(ts, keep)]]
    ELSE [err |-> NoError, ret |-> [alias |-> TRUE, items |-> <<>>]]

\* the items of a returned list: those of the store when it is the store's
returned(r, ts) == IF r.alias THEN ts ELSE r.items

NoFile == [exists |-> FALSE, data |-> <<>>]

\* ToDoList.save_to_file: json.dump of the list of to_dict records, which
\* json.load gives back as it was written (str, bool and list of str)
save_to_file(ts, pad) ==
    [exists |-> TRUE, data |-> [i \in DOMAIN ts |-> to_dict(ts[i], pad)]]

\* ToDoList.load_from_file on a store whose list is ts: no file empties the
\* store; a record from_dict rejects raises out of the comprehension before
\* self.tasks is assigned.
load_from_file(ts, f) ==
    IF ~f.exists THEN [err |-> NoError, tasks |-> <<>>]
    ELSE LET made == [i \in DOMAIN f.data |-> from_dict(f.data[i])]
             bad == {i \in DOMAIN made : made[i].err # NoError}
         IN  IF bad # {}
             THEN [err |-> made[CHOOSE i \in bad : \A j \in bad : i <= j].err,
                   tasks |-> ts]
             ELSE [err |-> NoError,
                   tasks |-> [i \in DOMAIN made |-> made[i].task]]

------------------------------------------------------------------------------
(* What the user types. Each line is typed as it is here and stripped by   *)
(* the menu.                                                               *)

\* the four lines of menu action 1
TaskLines == {
    [description |-> <<"B","u","y"," ","M","i","l","k">>,
     due_date |-> <<"2","0","2","5","-","0","1","-","0","5">>,
     priority |-> <<"h","i","g","h">>,
     tags |-> <<"H","o","m","e">>],
    [description |-> <<"C","a","l","l"," ","B","o","b">>,
     due_date |-> <<"2","0","2","5","-","1","-","5">>,
     priority |-> <<"L","O","W">>,
     tags |-> <<>>],
    [description |-> <<"B","u","y"," ","M","i","l","k">>,
     due_date |-> <<"0","9","9","9","-","1","2","-","3","1">>,
     priority |-> <<" ","M","e","d","i","u","m"," ">>,
     tags |-> <<"h","o","m","e",","," ",",","B","i","l","l","s">>],
    [description |-> <<" "," ","B","u","y"," ","M","i","l","k">>,
     due_date |-> <<"2","0","2","5","-","0","1","-","0","5"," ">>,
     priority |-> <<"h","I","g","H">>,
     tags |-> <<" ","H","o","m","e"," ",",">>],
    [description |-> <<"P","a","y"," ","r","e","n","t">>,
     due_date |-> <<"2","0","2","4","-","1","3","-","0","1">>,
     priority |-> <<"h","i","g","h">>,
     tags |-> <<>>],
    [description |-> <<"P","a","y"," ","r","e","n","t">>,
     due_date |-> <<"n","o","t","-","a","-","d","a","t","e">>,
     priority |-> <<"u","r","g","e","n","t">>,
     tags |-> <<>>],
    [description |-> <<"P","a","y"," ","r","e","n","t">>,
     due_date |-> <<"2","0","2","5","-","0","1","-","0","5">>,
     priority |-> <<"u","r","g","e","n","t">>,
     tags |-> <<"w","o","r","k">>],
    [description |-> <<"P","a","y"," ","r","e","n","t">>,
     due_date |-> <<"2","0","2","5","-","0","2","-","3","0">>,
     priority |-> <<"L","o","w">>,
     tags |-> <<>>],
    [description |-> <<"P","a","y"," ","r","e","n","t">>,
     due_date |-> <<"2","0","2","5","-","0","1","-","0","5">>,
     priority |-> <<>>,
     tags |-> <<>>],
    [description |-> <<"P","a","y"," ","r","e","n","t">>,
     due_date |-> <<"2","0","2","5","-","1","-","5","x">>,
     priority |-> <<"H","i","g","h","e","s","t">>,
     tags |-> <<>>]}

\* the description typed for menu actions 7 and 8
DescriptionLines ==
    {<<"B","u","y"," ","M","i","l","k">>,
     <<"b","u","y"," ","m","i","l","k">>,
     <<" ","C","a","l","l"," ","B","o","b"," ">>,
     <<"P","a","y"," ","r","e","n","t">>}

PriorityLines ==
    {<<"h","i","g","h">>,
     <<"L","O","W">>,
     <<" ","M","e","d","i","u","m">>,
     <<"u","r","g","e","n","t">>}

DateLines ==
    {<<"2","0","2","5","-","0","1","-","0","5">>,
     <<"2","0","2","5","-","1","-","5">>,
     <<"0","9","9","9","-","1","2","-","3","1">>,
     <<"2","0","2","5","-","0","1","-","0","6">>,
     <<"2","0","2","5","-","0","2","-","3","0">>,
     <<"t","o","m","o","r","r","o","w">>}

TagLines ==
    {<<"h","o","m","e">>,
     <<"B","I","L","L","S">>,
     <<"h","o","m">>}

KeywordLines ==
    {<<"m","i","l","k">>,
     <<"M","I","L","K">>,
     <<"B">>,
     <<"r","e","n","t">>,
     <<>>}

\* a filter_by list_tasks does not know
ByStatus == "status"

FilterKinds == {None, ByPriority, ByDueDate, ByTag, ByKeyword, ByStatus}

\* the values a caller passes with each filter_by
ValuesOf(filter_by) ==
    IF filter_by = None THEN {<<>>}
    ELSE IF filter_by = ByPriority THEN {strip(v) : v \in PriorityLines}
    ELSE IF filter_by = ByDueDate THEN DateLines
    ELSE IF filter_by = ByTag THEN TagLines
    ELSE IF filter_by = ByKeyword THEN KeywordLines
    ELSE {<<>>, <<"h","i","g","h">>, <<"m","i","l","k">>}

------------------------------------------------------------------------------
(* main() *)

nonEmpty(s) == s # <<>>

\* main, choice 1: the four inputs stripped, the tags split at the commas,
\* stripped, and the empty ones dropped
entered(line) ==
    [description |-> strip(line.description),
     due_date |-> strip(line.due_date),
     priority |-> strip(line.priority),
     tags |-> LET parts == split(strip(line.tags))
              IN  SelectSeq([i \in DOMAIN parts |-> strip(parts[i])], nonEmpty)]

\* the except clause of the menu loop: the three kinds are printed and the
\* loop goes on; any other exception leaves main
after(e) == IF e = NoError \/ e \in Caught THEN "menu" ELSE "crashed"

Init ==
    /\ tasks = <<>>
    /\ file = NoFile
    /\ pc = "start"
    /\ op = "none"
    /\ arg = <<>>
    /\ err = NoError
    /\ ret = NoRet

\* todo = ToDoList(); todo.load_from_file(), outside the try of the loop
Main ==
    /\ pc = "start"
    /\ LET r == load_from_file(<<>>, file)
       IN  /\ tasks' = r.tasks
           /\ err' = r.err
           /\ pc' = IF r.err = NoError THEN "menu" ELSE "crashed"
    /\ op' = "main"
    /\ arg' = <<>>
    /\ ret' = NoRet
    /\ UNCHANGED file

\* 1. Add Task
Choice1(line) ==
    /\ pc = "menu"
    /\ LET in == entered(line)
           made == Task(in.description, in.due_date, in.priority, in.tags, FALSE)
       IN  /\ made.err = NoError => Len(tasks) < MaxTasks
           /\ tasks' = IF made.err = NoError THEN add_task(tasks, made.task)
                       ELSE tasks
           /\ err' = made.err
           /\ pc' = after(made.err)
           /\ arg' = in
    /\ op' = "1"
    /\ ret' = NoRet
    /\ UNCHANGED file

\* choices 2 to 6: tasks = todo.list_tasks(...), then printed
listing(choice, filter_by, value) ==
    /\ pc = "menu"
    /\ LET r == list_tasks(tasks, filter_by, value)
       IN  /\ ret' = r.ret
           /\ err' = r.err
           /\ pc' = after(r.err)
    /\ op' = choice
    /\ arg' = [filter_by |-> filter_by, value |-> value]
    /\ UNCHANGED <<tasks, file>>

\* 2. List All Tasks
Choice2 == listing("2", None, <<>>)

\* 3. Filter Tasks by Priority
Choice3(line) == listing("3", ByPriority, strip(line))

\* 4. Filter Tasks by Due Date
Choice4(line) == listing("4", ByDueDate, strip(line))

\* 5. Filter Tasks by Tag
Choice5(line) == listing("5", ByTag, strip(line))

\* 6. Search Tasks by Keyword
Choice6(line) == listing("6", ByKeyword, strip(line))

\* 7. Mark Task as Completed
Choice7(line) ==
    /\ pc = "menu"
    /\ LET r == mark_completed(tasks, strip(line))
       IN  /\ tasks' = r.tasks
           /\ err' = r.err
           /\ pc' = after(r.err)
    /\ op' = "7"
    /\ arg' = strip(line)
    /\ ret' = NoRet
    /\ UNCHANGED file

\* 8. Delete Task
Choice8(line) ==
    /\ pc = "menu"
    /\ LET r == remove_task(tasks, strip(line))
       IN  /\ tasks' = r.tasks
           /\ err' = r.err
           /\ pc' = after(r.err)
    /\ op' = "8"
    /\ arg' = strip(line)
    /\ ret' = NoRet
    /\ UNCHANGED file

\* 9. Exit: todo.save_to_file(), then break. The C library's %Y is either.
Choice9 ==
    /\ pc = "menu"
    /\ \E pad \in BOOLEAN : file' = save_to_file(tasks, pad)
    /\ pc' = "exited"
    /\ op' = "9"
    /\ arg' = <<>>
    /\ err' = NoError
    /\ ret' = NoRet
    /\ UNCHANGED tasks

\* any other choice: "Invalid option. Try again."
ChoiceOther ==
    /\ pc = "menu"
    /\ op' = "other"
    /\ arg' = <<>>
    /\ err' = NoError
    /\ ret' = NoRet
    /\ UNCHANGED <<tasks, file, pc>>

\* the program is started again, with the file the last run left
Rerun ==
    /\ pc \in {"exited", "crashed"}
    /\ pc' = "start"
    /\ tasks' = <<>>
    /\ op' = "rerun"
    /\ arg' = <<>>
    /\ err' = NoError
    /\ ret' = NoRet
    /\ UNCHANGED file

\* one run of the program
Next ==
    \/ Main
    \/ \E line \in TaskLines : Choice1(line)
    \/ Choice2
    \/ \E line \in PriorityLines : Choice3(line)
    \/ \E line \in DateLines : Choice4(line)
    \/ \E line \in TagLines : Choice5(line)
    \/ \E line \in KeywordLines : Choice6(line)
    \/ \E line \in DescriptionLines : Choice7(line)
    \/ \E line \in DescriptionLines : Choice8(line)
    \/ Choice9
    \/ ChoiceOther

Spec == Init /\ [][Next]_vars

\* the program run again and again on the file it leaves
NextPersist ==
    \/ Main
    \/ \E line \in TaskLines : Choice1(line)
    \/ \E line \in DescriptionLines : Choice7(line)
    \/ \E line \in DescriptionLines : Choice8(line)
    \/ Choice9
    \/ Rerun

SpecPersist == Init /\ [][NextPersist]_vars

------------------------------------------------------------------------------
(* A caller other than main(): the methods of ToDoList called directly.    *)

InitCaller ==
    /\ tasks = <<>>
    /\ file = NoFile
    /\ pc = "caller"
    /\ op = "ToDoList"
    /\ arg = <<>>
    /\ err = NoError
    /\ ret = NoRet

\* todo.add_task(Task(...)), a Task of its own for every call
CallAddTask(line) ==
    LET in == entered(line)
        made == Task(in.description, in.due_date, in.priority, in.tags, FALSE)
    IN  /\ made.err = NoError
        /\ Len(tasks) < MaxTasks
        /\ tasks' = add_task(tasks, made.task)
        /\ op' = "add_task"
        /\ arg' = in
        /\ err' = NoError
        /\ ret' = NoRet
        /\ UNCHANGED <<file, pc>>

\* todo.mark_completed(description)
CallMarkCompleted(description) ==
    LET r == mark_completed(tasks, description)
    IN  /\ tasks' = r.tasks
        /\ err' = r.err
        /\ op' = "mark_completed"
        /\ arg' = description
        /\ ret' = NoRet
        /\ UNCHANGED <<file, pc>>

\* todo.list_tasks(filter_by, value); the caller keeps the list returned
CallListTasks(filter_by, value) ==
    LET r == list_tasks(tasks, filter_by, value)
    IN  /\ ret' = r.ret
        /\ err' = r.err
        /\ op' = "list_tasks"
        /\ arg' = [filter_by |-> filter_by, value |-> value]
        /\ UNCHANGED <<tasks, file, pc>>

\* what the caller does to the list list_tasks returned
Mutations == {"pop", "reverse", "append"}

RECURSIVE reversed(_)
reversed(s) == IF s = <<>> THEN <<>> ELSE Append(reversed(Tail(s)), Head(s))

mutated(items, how, task) ==
    IF how = "pop" THEN SubSeq(items, 1, Len(items) - 1)
    ELSE IF how = "reverse" THEN reversed(items)
    ELSE Append(items, task)

\* the Task objects a caller can make from the lines above
NewTasks ==
    LET made(in) ==
            Task(in.description, in.due_date, in.priority, in.tags, FALSE)
    IN  {made(entered(line)).task :
            line \in {l \in TaskLines : made(entered(l)).err = NoError}}

\* The caller changes the list it was just given. When that list is
\* self.tasks (ret.alias), it is the store's list that changes.
CallerMutates(how, task) ==
    /\ op = "list_tasks"
    /\ err = NoError
    /\ how = "pop" => returned(ret, tasks) # <<>>
    /\ how = "append" => Len(returned(ret, tasks)) < MaxTasks
    /\ IF ret.alias
       THEN /\ tasks' = mutated(tasks, how, task)
            /\ ret' = ret
       ELSE /\ ret' = [ret EXCEPT !.items = mutated(ret.items, how, task)]
            /\ tasks' = tasks
    /\ op' = "mutate"
    /\ arg' = how
    /\ err' = NoError
    /\ UNCHANGED <<file, pc>>

NextCaller ==
    \/ \E line \in TaskLines : CallAddTask(line)
    \/ \E line \in DescriptionLines : CallMarkCompleted(line)
    \/ \E filter_by \in FilterKinds : \E value \in ValuesOf(filter_by) :
           CallListTasks(filter_by, value)
    \/ \E how \in Mutations, task \in NewTasks : CallerMutates(how, task)

SpecCaller == InitCaller /\ [][NextCaller]_vars

------------------------------------------------------------------------------
(* What the claims speak of, stated without the operators of the code      *)

\* two characters that are the same letter, whatever their case
sameLetter(a, b) ==
    a = b \/ \E k \in DOMAIN UpperChars : {a, b} = {UpperChars[k], LowerChars[k]}

\* two texts equal but for the case of their letters
CaseEq(s, t) ==
    Len(s) = Len(t) /\ \A i \in DOMAIN s : sameLetter(s[i], t[i])

HasMatch(ts, description) ==
    \E i \in DOMAIN ts : ts[i].description = description

\* the lowest position holding a task of that description
FirstMatch(ts, description) ==
    CHOOSE i \in DOMAIN ts :
        /\ ts[i].description = description
        /\ \A j \in 1..(i - 1) : ts[j].description # description

\* the predicate of each filter kind
Satisfies(t, filter_by, value) ==
    IF filter_by = ByPriority THEN CaseEq(t.priority, value)
    ELSE IF filter_by = ByDueDate THEN
        LET d == strptime(value)
        IN  /\ t.due_date.year = d.year
            /\ t.due_date.month = d.month
            /\ t.due_date.day = d.day
    ELSE IF filter_by = ByTag THEN
        \E i \in DOMAIN t.tags : CaseEq(t.tags[i], value)
    ELSE IF filter_by = ByKeyword THEN
        \E k \in 0..(Len(t.description) - Len(value)) :
            CaseEq(SubSeq(t.description, k + 1, k + Len(value)), value)
    ELSE TRUE

\* r is the subsequence of ts, in the order of ts, of the tasks that satisfy
\* the filter
IsFilterOf(r, ts, filter_by, value) ==
    LET idx == {i \in DOMAIN ts : Satisfies(ts[i], filter_by, value)}
    IN  /\ Len(r) = Cardinality(idx)
        /\ \A i \in idx : r[Cardinality({j \in idx : j <= i})] = ts[i]

\* b is the task a, but that it may have been completed since
SameButCompleted(a, b) ==
    /\ b.description = a.description
    /\ b.due_date = a.due_date
    /\ b.priority = a.priority
    /\ b.tags = a.tags
    /\ a.completed => b.completed

------------------------------------------------------------------------------
(* The claims *)

\* C1: when the program has saved its store and left, load_from_file of the
\* file on a fresh store raises nothing and gives a list of the same length
\* in which each task has the description, due date, priority, completed
\* flag and tags of the task at the same position of the store saved.
C1_SaveThenLoadGivesTheStore ==
    pc = "exited" =>
        LET r == load_from_file(<<>>, file)
        IN  /\ r.err = NoError
            /\ Len(r.tasks) = Len(tasks)
            /\ \A i \in DOMAIN tasks : r.tasks[i] = tasks[i]

\* C2: whatever the caller does to the list list_tasks returned (append,
\* pop, reverse), the store's own list keeps its length, members and order.
C2_ReturnedListIsFresh ==
    [][op' = "mutate" => tasks' = tasks]_vars

\* C3: menu action 4 with a date that does not parse raises
\* InvalidDateError, which the menu loop catches, and the loop goes on.
C3_BadFilterDateIsCaught ==
    (op = "4" /\ ~strptime(arg.value).ok) =>
        (err = InvalidDateError /\ pc = "menu")

\* C4: a Task made with a date that parses and a priority that is not,
\* whatever its case, High, Medium or Low fails with InvalidPriorityError
\* (not InvalidDateError); with a priority that is one of them whatever its
\* case, the Task is made and holds the priority as High, Medium or Low.
C4_PriorityValidated ==
    (op = "1" /\ strptime(arg.due_date).ok) =>
        IF \E p \in Priorities : CaseEq(p, arg.priority)
        THEN /\ err = NoError
             /\ tasks # <<>>
             /\ tasks[Len(tasks)].priority \in Priorities
             /\ CaseEq(tasks[Len(tasks)].priority, arg.priority)
        ELSE err = InvalidPriorityError

C4_Witness ==
    /\ op = "1"
    /\ strptime(arg.due_date).ok
    /\ err = InvalidPriorityError

\* C5: a Task made with a date that does not parse fails with
\* InvalidDateError whatever the priority, valid or not; the menu's add
\* action then leaves the store as it was and the loop goes on.
C5_BadDateRejected ==
    [][(op' = "1" /\ ~strptime(arg'.due_date).ok) =>
          (err' = InvalidDateError /\ tasks' = tasks /\ pc' = "menu")]_vars

C5_Witness ==
    /\ op = "1"
    /\ err = InvalidDateError
    /\ tasks # <<>>
    /\ \A p \in Priorities : ~CaseEq(p, arg.priority)

\* C6: when no task of the store has exactly the description given,
\* mark_completed (7) and remove_task (8) fail with TaskNotFoundError and
\* the store is unchanged: same tasks, same order, same flags.
C6_NotFoundChangesNothing ==
    [][(op' \in {"7", "8"} /\ ~HasMatch(tasks, arg')) =>
          (err' = TaskNotFoundError /\ tasks' = tasks)]_vars

C6_Witness ==
    /\ op = "8"
    /\ err = TaskNotFoundError
    /\ \E i \in DOMAIN tasks : CaseEq(tasks[i].description, arg)

\* C7: when some task has exactly the description given, remove_task
\* succeeds and the store is the previous one with the element at the
\* lowest matching position deleted and nothing else changed.
C7_RemoveDeletesFirstMatch ==
    [][(op' = "8" /\ HasMatch(tasks, arg')) =>
          LET k == FirstMatch(tasks, arg')
          IN  /\ err' = NoError
              /\ Len(tasks') = Len(tasks) - 1
              /\ \A i \in 1..(k - 1) : tasks'[i] = tasks[i]
              /\ \A i \in k..(Len(tasks) - 1) : tasks'[i] = tasks[i + 1]]_vars

C7_Witness ==
    /\ op = "8"
    /\ err = NoError
    /\ HasMatch(tasks, arg)

\* C8: when some task has exactly the description given, mark_completed
\* sets completed on the task at the lowest matching position and changes
\* nothing else; on a task already completed it changes nothing at all.
C8_MarkCompletesFirstMatch ==
    [][(op' = "7" /\ HasMatch(tasks, arg')) =>
          LET k == FirstMatch(tasks, arg')
          IN  /\ err' = NoError
              /\ Len(tasks') = Len(tasks)
              /\ tasks'[k].completed
              /\ SameButCompleted(tasks[k], tasks'[k])
              /\ \A i \in DOMAIN tasks : i # k => tasks'[i] = tasks[i]
              /\ tasks[k].completed => tasks' = tasks]_vars

C8_Witness ==
    /\ op = "7"
    /\ err = NoError
    /\ \E i, j \in DOMAIN tasks :
          /\ i < j
          /\ tasks[i].description = arg
          /\ tasks[j].description = arg
          /\ tasks[i].completed
          /\ ~tasks[j].completed

\* C9: list_tasks returns exactly the tasks of the store that satisfy the
\* filter, in store order (all of them when filter_by is None or is not one
\* of the four kinds), and leaves the store as it was. The one call that
\* returns nothing is the due_date filter with a value that does not parse.
C9_ListIsTheFilteredStore ==
    [][op' = "list_tasks" =>
          /\ tasks' = tasks
          /\ IF err' = NoError
             THEN IsFilterOf(returned(ret', tasks'), tasks,
                             arg'.filter_by, arg'.value)
             ELSE arg'.filter_by = ByDueDate /\ ~strptime(arg'.value).ok]_vars

C9_Witness ==
    /\ op = "list_tasks"
    /\ err = NoError
    /\ arg.filter_by = ByKeyword
    /\ ret.items # <<>>
    /\ Len(ret.items) < Len(tasks)

\* C10: in every step of the program a task of the store keeps its
\* description, due date, priority and tags, and its completed flag goes
\* only from false to true; only mark_completed (7) changes a task, only
\* add (1) and remove (8) change which tasks the store holds, add at the
\* end and remove by taking one out.
C10_TaskLifecycle ==
    [][\/ tasks' = tasks
       \/ /\ op' = "1"
          /\ Len(tasks') = Len(tasks) + 1
          /\ SubSeq(tasks', 1, Len(tasks)) = tasks
       \/ /\ op' = "8"
          /\ \E k \in DOMAIN tasks :
                tasks' = [i \in 1..(Len(tasks) - 1) |->
                             IF i < k THEN tasks[i] ELSE tasks[i + 1]]
       \/ /\ op' = "7"
          /\ Len(tasks') = Len(tasks)
          /\ \A i \in DOMAIN tasks : SameButCompleted(tasks[i], tasks'[i])]_vars

C10_Witness ==
    /\ op = "8"
    /\ err = NoError
    /\ \E i \in DOMAIN tasks : tasks[i].completed

====
